---------------------------- MODULE Spec2Model ----------------------------
(***************************************************************************)
(* URL shortener (FastAPI application, src/app.py) over a MySQL table      *)
(* (src/database).                                                         *)
(*                                                                         *)
(* The service is modelled as a set of server processes (Workers) that     *)
(* share the short_links table.  Every process owns its module-level       *)
(* user_link_counts dictionary.  The handlers are "async def" functions    *)
(* without any await, so inside one process a handler runs to completion   *)
(* before the next one starts; handlers of different processes interleave  *)
(* at their database calls, each of which is one transaction.              *)
(*                                                                         *)
(* Time is counted in whole seconds of the UTC clock (datetime.utcnow()).  *)
(* datetime.now() is the local clock: the UTC clock plus the offset of the *)
(* server's time zone.                                                     *)
(*                                                                         *)
(* The mapped class ShortLink declares the URL column as full_url while    *)
(* crud.py and app.py address it as original_url; the model follows        *)
(* crud.py and app.py and calls the column original_url.                   *)
(***************************************************************************)
EXTENDS Integers, Sequences, FiniteSets, TLC

VARIABLES
    now,               \* the UTC clock, in seconds
    short_links,       \* the rows of table short_links
    user_link_counts,  \* per process: client address -> {} or {[count, timestamp]}
    pc,                \* per process: position of the handler it is running
    request,           \* per process: the request being handled
    current_datetime,  \* per process: create_short_url's current_datetime
    existing_link,     \* per process: create_short_url's existing_link ({} is None)
    link,              \* per process: the row read by get_original_url (link) or
                       \*   redirect_to_original_url (data); {} is None
    response,          \* the last response sent: which process, to which request,
                       \*   on which path of the handler, and the reply itself
    issued,            \* history: <<URL, code>> of every successful create
    nreq               \* number of requests accepted so far

vars == <<now, short_links, user_link_counts, pc, request, current_datetime,
          existing_link, link, response, issued, nreq>>

---------------------------------------------------------------------------
(* Program constants *)

\* app.py:24
MAX_LINKS_PER_USER == 100

\* models.py:15, Column(Integer, default=600)
DefaultTTL == 600

\* app.py:54, timedelta(hours=1) in seconds
Hour == 3600

\* app.py:25, os.getenv('HOST')
LINK_HOST == "HOST"

---------------------------------------------------------------------------
(* Bounds of the model *)

MaxRequests == 2

\* server processes sharing the table
Workers == {"w1", "w2"}

\* client addresses (request.client.host) known to the limiter
IPs == {"ip1", "ip2"}

\* the clients that send requests while the model runs; the others sent theirs
\* before it starts
Senders == {"ip1"}

\* the instants at which the clock is observed: the start, and the instants
\* around the end of a link's lifetime and of a rate-limit window
Instants == {0, DefaultTTL, DefaultTTL + 1, Hour, Hour + 1}

\* offsets of the server's local clock from UTC: UTC-1, UTC, UTC+1
TZOffsets == {0 - Hour, 0, Hour}

\* rate-limit counts a process may hold for a client when the model starts
\* (the rows that earlier requests inserted are for URLs outside URLs)
PriorCounts == {0, MAX_LINKS_PER_USER - 1}

---------------------------------------------------------------------------
(* URLs: strings as sequences of characters *)

U_http == <<"h","t","t","p",":","/","/","b",".","i","o","/","1","n","n","e","v">>

U_bare == <<"a",".","i","o","/","3","p","h","0","x">>

U_https == <<"h","t","t","p","s",":","/","/","c",".","i","o">>

U_bad  == <<"a",".","b">>

URLs == {U_http, U_https, U_bare, U_bad}

Letters ==
    {"a","b","c","d","e","f","g","h","i","j","k","l","m",
     "n","o","p","q","r","s","t","u","v","w","x","y","z",
     "A","B","C","D","E","F","G","H","I","J","K","L","M",
     "N","O","P","Q","R","S","T","U","V","W","X","Y","Z"}

Digits == {"0","1","2","3","4","5","6","7","8","9"}

\* [a-zA-Z0-9-]
HostChars == Letters \cup Digits \cup {"-"}

\* [a-zA-Z0-9#-]
PathChars == Letters \cup Digits \cup {"#", "-"}

\* s[i .. i+Len(p)-1] = p
HasAt(s, i, p) ==
    /\ i + Len(p) - 1 <= Len(s)
    /\ \A k \in 1..Len(p) : s[i + k - 1] = p[k]

\* str.startswith
StartsWith(s, p) == HasAt(s, 1, p)

\* all of s[i .. j-1] are in class
AllIn(s, i, j, class) == \A k \in i..(j - 1) : s[k] \in class

\* positions after an optional literal p
Optional(s, P, p) == P \cup {i + Len(p) : i \in {q \in P : HasAt(s, q, p)}}

\* positions after class+ , class{2,} ... : at least min characters of class
AtLeast(s, P, min, class) ==
    {j \in 1..(Len(s) + 1) : \E i \in P : j >= i + min /\ AllIn(s, i, j, class)}

\* positions after one  sep class{min,}
Segment(s, P, sep, min, class) ==
    AtLeast(s, {i + 1 : i \in {q \in P : q <= Len(s) /\ s[q] = sep}}, min, class)

RECURSIVE Repeat(_, _, _, _, _, _)
\* positions after zero or more further segments (n bounds the iteration)
Repeat(s, P, sep, min, class, n) ==
    IF n = 0 THEN P
    ELSE LET Q == P \cup Segment(s, P, sep, min, class)
         IN  IF Q = P THEN P ELSE Repeat(s, Q, sep, min, class, n - 1)

\* link_checker.py: re.match of
\*   ^(https?://)?(www\.)?[a-zA-Z0-9-]+(\.[a-zA-Z]{2,})+(/[a-zA-Z0-9#-]*)*$
\* ($ also matches before a final newline)
check_link(s) ==
    LET P1 == Optional(s, {1}, <<"h","t","t","p",":","/","/">>)
                \cup Optional(s, {1}, <<"h","t","t","p","s",":","/","/">>)
        P2 == Optional(s, P1, <<"w","w","w",".">>)
        P3 == AtLeast(s, P2, 1, HostChars)
        P4 == Repeat(s, Segment(s, P3, ".", 2, Letters), ".", 2, Letters, Len(s))
        P5 == Repeat(s, P4, "/", 0, PathChars, Len(s))
    IN  \/ Len(s) + 1 \in P5
        \/ Len(s) \in P5 /\ Len(s) >= 1 /\ s[Len(s)] = "\n"

\* short_code_generator.py: urlsafe base64 of the first 6 bytes of the SHA-256
\* digest of the URL; the values are those the function returns for these URLs
\* (U_http and U_bare have the same 6-byte digest prefix)
generate_short_code(u) ==
    CASE u = U_http -> "zeuMBd-D"
      [] u = U_https -> "mQsviJ66"
      [] u = U_bare -> "zeuMBd-D"
      [] u = U_bad  -> "LnM23I66"

\* short codes a reader may ask for
Codes == {generate_short_code(u) : u \in {U_http, U_https}}

---------------------------------------------------------------------------
(* The table short_links (models.py) and its operations (crud.py) *)

\* Query.first(): one row or None ({}); the row with the least id
First(S) == IF S = {} THEN {} ELSE {CHOOSE r \in S : \A q \in S : r.id <= q.id}

\* a lookup that searches for the scheme-prefixed form of the URL
get_existing_record_prefixed(data) ==
    First({r \in short_links :
             r.original_url = <<"h","t","t","p",":","/","/">> \o data})

\* crud.py get_existing_record
get_existing_record(data) == First({r \in short_links : r.original_url = data})

\* crud.py get_record_by_short_code
get_record_by_short_code(data) == First({r \in short_links : r.short_url = data})

\* a table whose short_url column has no unique index
UniqueViolation_url_only(original_url, short_url_code) ==
    \E r \in short_links : r.original_url = original_url

\* models.py: unique=True on the URL column and on short_url; the insert of a
\* row with this URL or this code raises IntegrityError
UniqueViolation(original_url, short_url_code) ==
    \E r \in short_links :
        r.original_url = original_url \/ r.short_url = short_url_code

\* models.py: id is the auto-incremented primary key
NextId == Cardinality(short_links) + 1

\* crud.py add_new_link: the row that ShortLink(...) + commit stores
NewRow(original_url, short_url_code, created_at) ==
    [id |-> NextId, original_url |-> original_url, short_url |-> short_url_code,
     created_at |-> created_at, ttl |-> DefaultTTL]

\* datetime.now(): the local clock of a server whose zone is off seconds from UTC
LocalNow(off) == now + off

\* crud.py renew_url_record: the table after link.created_at = datetime.now()
Renewed(data, local_now) ==
    LET hit == get_existing_record(data)
    IN  {IF r \in hit THEN [r EXCEPT !.created_at = local_now] ELSE r : r \in short_links}

\* a session that is still open and writes the assignment back at its commit
Detached_flushed(row, assigned) == (short_links \ {row}) \cup {assigned}

\* crud.py:8-19 and 45-47: the session that loaded the row has committed and
\* is closed when the lookup returns; the table after an assignment to the
\* detached object is the table as it was
Detached(row, assigned) == short_links

---------------------------------------------------------------------------
(* Pieces of the handlers (app.py) *)

\* a create that renews the record whatever its age
IsStaleOnCreate_always(t, row) == TRUE

\* app.py:60, (current_datetime - created_at).total_seconds() > ttl
IsStaleOnCreate(t, row) == t - row.created_at > row.ttl

\* a lifetime check that already fails at age = ttl
ResolveExpired_at_ttl(t, row) == t - row.created_at >= row.ttl

\* app.py:106
ResolveExpired(t, row) == t - row.created_at > row.ttl

\* app.py:137
RedirectExpired(t, row) == t - row.created_at > row.ttl

\* a window that already ends at exactly one hour
WindowElapsed_at_hour(t, entry) == t - entry.timestamp >= Hour

\* app.py:54, current_datetime - timestamp > timedelta(hours=1)
WindowElapsed(t, entry) == t - entry.timestamp > Hour

\* a handler without quota check
QuotaReached_never(entry) == FALSE

\* a quota check that is off by one
QuotaReached_above(entry) == entry.count > MAX_LINKS_PER_USER

\* app.py:70
QuotaReached(entry) == entry.count >= MAX_LINKS_PER_USER

\* app.py:22, the defaultdict's factory
DefaultEntry == [count |-> 0, timestamp |-> now]

\* app.py:54-55: the entry of user_ip in process w once the window was looked at
\* (reading user_link_counts[user_ip] creates the entry when it is missing)
WindowChecked(w, user_ip, t) ==
    LET have  == user_link_counts[w][user_ip]
        entry == IF have = {} THEN DefaultEntry ELSE CHOOSE e \in have : TRUE
    IN  IF WindowElapsed(t, entry) THEN [count |-> 0, timestamp |-> t] ELSE entry

\* a creation that is not counted
CountIncremented_not(w, user_ip) == user_link_counts

\* a creation that is counted against every client of the process
CountIncremented_all(w, user_ip) ==
    [user_link_counts EXCEPT ![w] =
        [i \in IPs |-> {[e EXCEPT !.count = @ + 1] : e \in user_link_counts[w][i]}]]

\* app.py:84, user_link_counts[user_ip]['count'] += 1 in process w
CountIncremented(w, user_ip) ==
    [user_link_counts EXCEPT ![w][user_ip] = {[e EXCEPT !.count = @ + 1] : e \in @}]

\* app.py:63-67 and 85-89
LinkResponse(row) ==
    [status |-> 200, original_url |-> row.original_url,
     shortened_url |-> <<LINK_HOST, "/", row.short_url>>,
     short_url_code |-> row.short_url]

\* fastapi.HTTPException as the client receives it
HTTPException(status_code, detail) == [status |-> status_code, detail |-> detail]

\* app.py:71-72 (detail: "maximum number of generations reached for this IP")
RateLimited == HTTPException(429, "Generation limit reached for this IP address")

\* a rejection reported as 422 Unprocessable Entity
InvalidFormat_unprocessable == HTTPException(422, "Invalid link format")

\* app.py:75 (detail: "wrong link format")
InvalidFormat == HTTPException(400, "Invalid link format")

\* app.py:104 and 135 (detail: "link not found")
LinkNotFound == HTTPException(404, "Link not found")

\* an expiry reported as 410 Gone
LinkExpired_gone == HTTPException(410, "Link lifetime has expired")

\* app.py:107 and 138 (detail: "link lifetime has expired")
LinkExpired == HTTPException(404, "Link lifetime has expired")

\* app.py:146-157: any other exception becomes a 500 carrying str(exc)
validation_exception_handler(exc) ==
    [status |-> 500, detail |-> "Internal server error", exception |-> exc]

\* a JSON response that carries the scheme-prefixed URL of the redirect
OriginalUrlResponse_prefixed(row) ==
    [status |-> 200,
     original_url |->
        IF /\ ~StartsWith(row.original_url, <<"h","t","t","p",":","/","/">>)
           /\ ~StartsWith(row.original_url, <<"h","t","t","p","s",":","/","/">>)
        THEN <<"h","t","t","p",":","/","/">> \o row.original_url
        ELSE row.original_url]

\* app.py:109
OriginalUrlResponse(row) == [status |-> 200, original_url |-> row.original_url]

\* a scheme test that knows "http://" only
RedirectTarget_http_only(row) ==
    IF ~StartsWith(row.original_url, <<"h","t","t","p",":","/","/">>)
    THEN <<"h","t","t","p",":","/","/">> \o row.original_url
    ELSE row.original_url

\* app.py:140-141
RedirectTarget(row) ==
    IF /\ ~StartsWith(row.original_url, <<"h","t","t","p",":","/","/">>)
       /\ ~StartsWith(row.original_url, <<"h","t","t","p","s",":","/","/">>)
    THEN <<"h","t","t","p",":","/","/">> \o row.original_url
    ELSE row.original_url

\* app.py:143, RedirectResponse (307 Temporary Redirect)
RedirectResponse(url) == [status |-> 307, location |-> url]

\* the one element of a one-element set
The(S) == CHOOSE r \in S : TRUE

---------------------------------------------------------------------------
(* Initial state *)

NoRequest == [op |-> "none"]

Init ==
    /\ now = 0
    /\ short_links = {}
    /\ \E c \in PriorCounts :
         user_link_counts =
           [w \in Workers |-> [ip \in IPs |->
              IF c = 0 THEN {} ELSE {[count |-> c, timestamp |-> 0]}]]
    /\ pc = [w \in Workers |-> "idle"]
    /\ request = [w \in Workers |-> NoRequest]
    /\ current_datetime = [w \in Workers |-> 0]
    /\ existing_link = [w \in Workers |-> {}]
    /\ link = [w \in Workers |-> {}]
    /\ response = [path |-> "none"]
    /\ issued = {}
    /\ nreq = 0

---------------------------------------------------------------------------
(* Steps *)

\* the clock advances
Tick(t) ==
    /\ t > now
    /\ now' = t
    /\ UNCHANGED <<short_links, user_link_counts, pc, request, current_datetime,
                   existing_link, link, response, issued, nreq>>

\* process w is free to take the next request
Accept(w) ==
    /\ pc[w] = "idle"
    /\ nreq < MaxRequests
    /\ nreq' = nreq + 1

\* the handler of process w returns: its locals are gone
Return(w) ==
    /\ pc' = [pc EXCEPT ![w] = "idle"]
    /\ request' = [request EXCEPT ![w] = NoRequest]
    /\ current_datetime' = [current_datetime EXCEPT ![w] = 0]
    /\ existing_link' = [existing_link EXCEPT ![w] = {}]
    /\ link' = [link EXCEPT ![w] = {}]

\* the response the client of process w receives
Sent(w, req, path, reply) ==
    response' = [w |-> w, request |-> req, path |-> path, reply |-> reply]

CreateRequest(user_ip, original_url) ==
    [op |-> "create", ip |-> user_ip, original_url |-> original_url]

\* app.py:51-55: the limiter entry of the client is read (and so created) and
\* its window looked at
CreateEntry(w, user_ip) ==
    /\ Accept(w)
    /\ user_link_counts' = [user_link_counts EXCEPT ![w][user_ip] =
                              {WindowChecked(w, user_ip, now)}]

\* app.py:58-67, the record exists and is not stale: answer from it
CreateExistingFresh(w, user_ip, original_url) ==
    LET found == get_existing_record(original_url)
    IN  /\ CreateEntry(w, user_ip)
        /\ found # {}
        /\ ~IsStaleOnCreate(now, The(found))
        /\ Sent(w, CreateRequest(user_ip, original_url), "existing", LinkResponse(The(found)))
        /\ issued' = issued \cup {<<original_url, The(found).short_url>>}
        /\ UNCHANGED <<now, short_links, pc, request, current_datetime, existing_link,
                       link>>

\* app.py:58-61, the record exists and is stale: renew_url_record is called next
CreateExistingStale(w, user_ip, original_url) ==
    LET found == get_existing_record(original_url)
    IN  /\ CreateEntry(w, user_ip)
        /\ found # {}
        /\ IsStaleOnCreate(now, The(found))
        /\ pc' = [pc EXCEPT ![w] = "renew"]
        /\ request' = [request EXCEPT ![w] = CreateRequest(user_ip, original_url)]
        /\ current_datetime' = [current_datetime EXCEPT ![w] = now]
        /\ existing_link' = [existing_link EXCEPT ![w] = found]
        /\ UNCHANGED <<now, short_links, link, response, issued>>

\* app.py:61-67 with crud.py renew_url_record
CreateRenew(w) ==
    /\ pc[w] = "renew"
    /\ \E off \in TZOffsets :
         short_links' = Renewed(request[w].original_url, LocalNow(off))
    /\ Sent(w, request[w], "renewed", LinkResponse(The(existing_link[w])))
    /\ issued' = issued \cup {<<request[w].original_url, The(existing_link[w]).short_url>>}
    /\ Return(w)
    /\ UNCHANGED <<now, user_link_counts, nreq>>

\* app.py:69-72, no record and the client's quota is used up
CreateRateLimited(w, user_ip, original_url) ==
    /\ CreateEntry(w, user_ip)
    /\ get_existing_record(original_url) = {}
    /\ QuotaReached(The(user_link_counts'[w][user_ip]))
    /\ Sent(w, CreateRequest(user_ip, original_url), "limited", RateLimited)
    /\ UNCHANGED <<now, short_links, pc, request, current_datetime, existing_link,
                   link, issued>>

\* app.py:74-75, no record, quota left, the validator rejects the URL
CreateInvalid(w, user_ip, original_url) ==
    /\ CreateEntry(w, user_ip)
    /\ get_existing_record(original_url) = {}
    /\ ~QuotaReached(The(user_link_counts'[w][user_ip]))
    /\ ~check_link(original_url)
    /\ Sent(w, CreateRequest(user_ip, original_url), "invalid", InvalidFormat)
    /\ UNCHANGED <<now, short_links, pc, request, current_datetime, existing_link,
                   link, issued>>

\* a handler that goes on to the insert without asking the validator
CreateNew_unchecked(w, user_ip, original_url) ==
    /\ CreateEntry(w, user_ip)
    /\ get_existing_record(original_url) = {}
    /\ ~QuotaReached(The(user_link_counts'[w][user_ip]))
    /\ pc' = [pc EXCEPT ![w] = "insert"]
    /\ request' = [request EXCEPT ![w] = CreateRequest(user_ip, original_url)]
    /\ current_datetime' = [current_datetime EXCEPT ![w] = now]
    /\ UNCHANGED <<now, short_links, existing_link, link, response, issued>>

\* app.py:77-79, no record, quota left, valid URL: add_new_link is called next
CreateNew(w, user_ip, original_url) ==
    /\ CreateEntry(w, user_ip)
    /\ get_existing_record(original_url) = {}
    /\ ~QuotaReached(The(user_link_counts'[w][user_ip]))
    /\ check_link(original_url)
    /\ pc' = [pc EXCEPT ![w] = "insert"]
    /\ request' = [request EXCEPT ![w] = CreateRequest(user_ip, original_url)]
    /\ current_datetime' = [current_datetime EXCEPT ![w] = now]
    /\ UNCHANGED <<now, short_links, existing_link, link, response, issued>>

\* app.py:77-89 with crud.py add_new_link, the insert commits
InsertCommitted(w) ==
    LET url  == request[w].original_url
        code == generate_short_code(url)
        row  == NewRow(url, code, current_datetime[w])
        ip   == request[w].ip
    IN  /\ pc[w] = "insert"
        /\ ~UniqueViolation(url, code)
        /\ short_links' = short_links \cup {row}
        /\ user_link_counts' = CountIncremented(w, ip)
        /\ Sent(w, request[w], "inserted", LinkResponse(row))
        /\ issued' = issued \cup {<<url, row.short_url>>}
        /\ Return(w)
        /\ UNCHANGED <<now, nreq>>

\* crud.py:15-17 and app.py:146-157: the insert violates a unique index, the
\* session rolls back and IntegrityError reaches the catch-all handler
InsertRejected(w) ==
    LET url  == request[w].original_url
        code == generate_short_code(url)
    IN  /\ pc[w] = "insert"
        /\ UniqueViolation(url, code)
        /\ Sent(w, request[w], "rejected", validation_exception_handler("IntegrityError"))
        /\ Return(w)
        /\ UNCHANGED <<now, short_links, user_link_counts, issued, nreq>>

ReadRequest(op, short_url) == [op |-> op, short_url |-> short_url]

\* app.py:101-104 / 132-135: no row has the code
ReadNotFound(w, op, short_url) ==
    /\ Accept(w)
    /\ get_record_by_short_code(short_url) = {}
    /\ Sent(w, ReadRequest(op, short_url), "absent", LinkNotFound)
    /\ UNCHANGED <<now, short_links, user_link_counts, pc, request, current_datetime,
                   existing_link, link, issued>>

\* app.py:101-103 / 132-134: a row was found; datetime.utcnow() is read next
ReadFound(w, op, short_url) ==
    /\ Accept(w)
    /\ get_record_by_short_code(short_url) # {}
    /\ link' = [link EXCEPT ![w] = get_record_by_short_code(short_url)]
    /\ request' = [request EXCEPT ![w] = ReadRequest(op, short_url)]
    /\ pc' = [pc EXCEPT ![w] = op]
    /\ UNCHANGED <<now, short_links, user_link_counts, current_datetime, existing_link,
                   response, issued>>

\* get_original_url
ResolveNotFound(w, short_url) == ReadNotFound(w, "resolve", short_url)

ResolveFound(w, short_url) == ReadFound(w, "resolve", short_url)

\* redirect_to_original_url
RedirectNotFound(w, short_url) == ReadNotFound(w, "redirect", short_url)

RedirectFound(w, short_url) == ReadFound(w, "redirect", short_url)

\* a read handler answers
ReadAnswer(w, path, reply) ==
    /\ Sent(w, request[w], path, reply)
    /\ Return(w)
    /\ UNCHANGED <<now, short_links, user_link_counts, issued, nreq>>

\* app.py:106-107
ResolveStale(w) ==
    /\ pc[w] = "resolve"
    /\ ResolveExpired(now, The(link[w]))
    /\ ReadAnswer(w, "expired", LinkExpired)

\* app.py:106-109
ResolveFresh(w) ==
    /\ pc[w] = "resolve"
    /\ ~ResolveExpired(now, The(link[w]))
    /\ ReadAnswer(w, "fresh", OriginalUrlResponse(The(link[w])))

\* app.py:137-138
RedirectStale(w) ==
    /\ pc[w] = "redirect"
    /\ RedirectExpired(now, The(link[w]))
    /\ ReadAnswer(w, "expired", LinkExpired)

\* app.py:137-143; the assignment to data.original_url changes the detached
\* object only, the session that loaded it is closed
RedirectFresh(w) ==
    LET data     == The(link[w])
        assigned == [data EXCEPT !.original_url = RedirectTarget(data)]
    IN  /\ pc[w] = "redirect"
        /\ ~RedirectExpired(now, data)
        /\ short_links' = Detached(data, assigned)
        /\ Sent(w, request[w], "fresh", RedirectResponse(assigned.original_url))
        /\ Return(w)
        /\ UNCHANGED <<now, user_link_counts, issued, nreq>>

Next ==
    \/ \E t \in Instants : Tick(t)
    \/ \E w \in Workers, ip \in Senders, u \in URLs : CreateExistingFresh(w, ip, u)
    \/ \E w \in Workers, ip \in Senders, u \in URLs : CreateExistingStale(w, ip, u)
    \/ \E w \in Workers, ip \in Senders, u \in URLs : CreateRateLimited(w, ip, u)
    \/ \E w \in Workers, ip \in Senders, u \in URLs : CreateInvalid(w, ip, u)
    \/ \E w \in Workers, ip \in Senders, u \in URLs : CreateNew(w, ip, u)
    \/ \E w \in Workers : CreateRenew(w)
    \/ \E w \in Workers : InsertCommitted(w)
    \/ \E w \in Workers : InsertRejected(w)
    \/ \E w \in Workers, c \in Codes : ResolveNotFound(w, c)
    \/ \E w \in Workers, c \in Codes : ResolveFound(w, c)
    \/ \E w \in Workers : ResolveStale(w)
    \/ \E w \in Workers : ResolveFresh(w)
    \/ \E w \in Workers, c \in Codes : RedirectNotFound(w, c)
    \/ \E w \in Workers, c \in Codes : RedirectFound(w, c)
    \/ \E w \in Workers : RedirectStale(w)
    \/ \E w \in Workers : RedirectFresh(w)

Spec == Init /\ [][Next]_vars

---------------------------------------------------------------------------
(* Vocabulary of the properties *)

\* the rows stored for a URL / under a code
RowsFor(original_url) == {r \in short_links : r.original_url = original_url}

RowsUnder(short_url) == {r \in short_links : r.short_url = short_url}

\* the age of a row does not exceed its ttl
Fresh(t, row) == t - row.created_at <= row.ttl

\* this step: process w accepts a create request
CreateArrives(w, ip, u) ==
    \/ CreateExistingFresh(w, ip, u)
    \/ CreateExistingStale(w, ip, u)
    \/ CreateRateLimited(w, ip, u)
    \/ CreateInvalid(w, ip, u)
    \/ CreateNew(w, ip, u)

\* this step: process w accepts a read request
ReadArrives(w, op, c) == ReadNotFound(w, op, c) \/ ReadFound(w, op, c)

\* this step: the handler of process w returns, response' is its response
Answers(w) ==
    /\ pc'[w] = "idle"
    /\ response'.path # "none"
    /\ response'.w = w
    /\ \/ pc[w] # "idle"
       \/ \E ip \in Senders, u \in URLs : CreateArrives(w, ip, u)
       \/ \E op \in {"resolve", "redirect"}, c \in Codes : ReadArrives(w, op, c)

---------------------------------------------------------------------------
(* C1 - C10 *)

\* C1: idempotent creation.  A create request for a URL whose record is fresh
\* is answered at once with status 200 and that record's code, the table is
\* left as it is, the table holds exactly one record for the URL, and every
\* code ever returned for the URL by a successful create is that same code.
C1_IdempotentCreate ==
    [][\A w \in Workers, ip \in IPs, u \in URLs :
         (CreateArrives(w, ip, u) /\ \E r \in RowsFor(u) : Fresh(now, r)) =>
            /\ Answers(w)
            /\ \A r \in RowsFor(u) : response'.reply = LinkResponse(r)
            /\ response'.reply.status = 200
            /\ short_links' = short_links
            /\ Cardinality({r \in short_links' : r.original_url = u}) = 1
            /\ \A p \in issued' :
                 p[1] = u => p[2] = response'.reply.short_url_code]_vars

\* a second create for a stored, fresh URL was answered with the code of the
\* one record of that URL
C1_Witness ==
    /\ response.path = "existing"
    /\ nreq = 2
    /\ response.reply.status = 200
    /\ \E r \in short_links :
         /\ r.original_url = response.request.original_url
         /\ r.short_url = response.reply.short_url_code
         /\ Fresh(now, r)
    /\ Cardinality(RowsFor(response.request.original_url)) = 1

\* C2: round trip.  For every <<u, c>> that a successful create returned, a
\* resolve of c never reports "not found" at the lookup, and when the row it
\* read is within its lifetime at the time of the check it returns exactly u.
C2_RoundTrip ==
    [][\A w \in Workers, p \in issued :
         /\ ~ResolveNotFound(w, p[2])
         /\ (/\ pc[w] = "resolve"
             /\ request[w].short_url = p[2]
             /\ Answers(w)
             /\ Fresh(now, The(link[w])))
            => response'.reply = [status |-> 200, original_url |-> p[1]]]_vars

\* a resolve returned the URL of a create that had returned the code
C2_Witness ==
    /\ response.path = "fresh"
    /\ response.request.op = "resolve"
    /\ response.reply.status = 200
    /\ <<response.reply.original_url, response.request.short_url>> \in issued

\* C3: TTL boundary on the read path.  resolve and redirect answer 404 exactly
\* when no row has the code (at the lookup) or the row that was read is older
\* than its ttl (at the check); a row whose age is at most ttl - age = ttl
\* included - is answered with success (200 for resolve, 307 for redirect).
C3_TTLBoundary ==
    [][\A w \in Workers :
         /\ \A op \in {"resolve", "redirect"}, c \in Codes :
              ReadArrives(w, op, c) =>
                 /\ (RowsUnder(c) = {}) <=> (Answers(w) /\ response'.reply.status = 404)
                 /\ (RowsUnder(c) # {}) =>
                       /\ link'[w] \subseteq RowsUnder(c)
                       /\ link'[w] # {}
                       /\ pc'[w] = op
         /\ (pc[w] \in {"resolve", "redirect"} /\ pc'[w] # pc[w]) =>
              /\ Answers(w)
              /\ IF now - The(link[w]).created_at > The(link[w]).ttl
                   THEN response'.reply.status = 404
                   ELSE response'.reply.status =
                          IF pc[w] = "resolve" THEN 200 ELSE 307]_vars

\* a read of a row whose age is exactly its ttl succeeded
C3_Witness ==
    /\ response.path = "fresh"
    /\ response.reply.status \in {200, 307}
    /\ \E r \in RowsUnder(response.request.short_url) : now - r.created_at = r.ttl

\* C4: stale renewal on create.  When renew_url_record has run for a stale
\* record the request is answered with the record's code, the record's
\* created_at lies within the time of the request on the UTC clock, and the
\* record is fresh, so a resolve issued at once succeeds.
C4_RenewalOnRequestClock ==
    [][\A w \in Workers :
         (pc[w] = "renew" /\ pc'[w] = "idle") =>
            /\ Answers(w)
            /\ response'.reply.status = 200
            /\ response'.reply.short_url_code = The(existing_link[w]).short_url
            /\ \A r \in {x \in short_links' : x.original_url = request[w].original_url} :
                 /\ current_datetime[w] <= r.created_at
                 /\ r.created_at <= now
                 /\ Fresh(now, r)]_vars

\* the client's count in process w has reached the maximum and its window is
\* still open
QuotaUsedUp(w, ip) ==
    \E e \in user_link_counts[w][ip] :
        e.count >= MAX_LINKS_PER_USER /\ now - e.timestamp <= Hour

\* C5 as claimed: a create request of a client whose quota is used up is
\* answered 429 even when the URL already has a record.
C5_LimiterBeforeLookup ==
    [][\A w \in Workers, ip \in Senders, u \in URLs :
         (CreateArrives(w, ip, u) /\ QuotaUsedUp(w, ip) /\ RowsFor(u) # {}) =>
            (Answers(w) /\ response'.reply.status = 429)]_vars

\* C5 as amended: the lookup comes before the quota check.  A create request of
\* a client whose quota is used up is answered 429 when the URL has no record
\* (and nothing is inserted); when the URL has a record the request is answered
\* 200 with that record's code, at once for a fresh record and after the
\* renewal for a stale one.
C5_LookupBeforeLimiter ==
    [][\A w \in Workers :
         /\ \A ip \in Senders, u \in URLs :
              (CreateArrives(w, ip, u) /\ QuotaUsedUp(w, ip)) =>
                 /\ RowsFor(u) = {} =>
                       /\ Answers(w)
                       /\ response'.reply.status = 429
                       /\ short_links' = short_links
                 /\ \A r \in RowsFor(u) :
                       IF Fresh(now, r)
                         THEN /\ Answers(w)
                              /\ response'.reply.status = 200
                              /\ response'.reply.short_url_code = r.short_url
                         ELSE pc'[w] = "renew" /\ existing_link'[w] = {r}
         /\ (pc[w] = "renew" /\ pc'[w] = "idle") =>
              /\ Answers(w)
              /\ response'.reply.status = 200
              /\ response'.reply.short_url_code = The(existing_link[w]).short_url]_vars

\* a client whose quota is used up was answered from an existing record
C5_Witness ==
    /\ response.path = "existing"
    /\ response.reply.status = 200
    /\ QuotaUsedUp(response.w, response.request.ip)

\* C6: rate-limit window, per server process.  On a create request the
\* client's entry is reset to count 0 and window start now exactly when more
\* than one hour has passed since the window start (not at one hour sharp),
\* before the quota is looked at: the request is then not answered 429, and a
\* new valid URL goes on to the insert.  In an open window a client at
\* MAX_LINKS_PER_USER is answered 429 for a URL without record and nothing is
\* inserted.  A committed insert answers 200 and adds exactly one to the
\* count; an insert commits when neither the URL nor its code is stored.
C6_RateLimitWindow ==
    [][\A w \in Workers, ip \in Senders :
         /\ \A u \in URLs :
              CreateArrives(w, ip, u) =>
                 /\ user_link_counts'[w][ip] # {}
                 /\ user_link_counts[w][ip] = {} =>
                       The(user_link_counts'[w][ip]) = [count |-> 0, timestamp |-> now]
                 /\ \A e \in user_link_counts[w][ip] :
                       IF now - e.timestamp > Hour
                         THEN /\ The(user_link_counts'[w][ip]) =
                                    [count |-> 0, timestamp |-> now]
                              /\ ~(Answers(w) /\ response'.reply.status = 429)
                              /\ (RowsFor(u) = {} /\ check_link(u)) => pc'[w] = "insert"
                         ELSE /\ The(user_link_counts'[w][ip]) = e
                              /\ (e.count >= MAX_LINKS_PER_USER /\ RowsFor(u) = {}) =>
                                    /\ Answers(w)
                                    /\ response'.reply.status = 429
                                    /\ short_links' = short_links
         /\ (pc[w] = "insert" /\ request[w].ip = ip /\ pc'[w] = "idle") =>
              LET e   == The(user_link_counts[w][ip])
                  url == request[w].original_url
              IN  /\ Answers(w)
                  /\ (RowsFor(url) = {} /\ RowsUnder(generate_short_code(url)) = {})
                        => response'.reply.status = 200
                  /\ IF response'.reply.status = 200
                       THEN /\ user_link_counts'[w][ip] = {[e EXCEPT !.count = e.count + 1]}
                            /\ Cardinality(short_links') = Cardinality(short_links) + 1
                       ELSE /\ user_link_counts'[w][ip] = {e}
                            /\ short_links' = short_links]_vars

\* a creation brought a client's count to the maximum and the client's next
\* request, for a URL without record in the same window, was answered 429
C6_Witness ==
    /\ response.path = "limited"
    /\ response.reply.status = 429
    /\ short_links # {}
    /\ \E e \in user_link_counts[response.w][response.request.ip] :
         /\ e.count = MAX_LINKS_PER_USER
         /\ now - e.timestamp <= Hour
         /\ \E r \in short_links : e.timestamp <= r.created_at

\* after the window of a client with a count ran out, the client's request
\* was let through and inserted a row
C6_ResetReached ==
    /\ response.path = "inserted"
    /\ now = Hour + 1
    /\ user_link_counts[response.w][response.request.ip] =
          {[count |-> 1, timestamp |-> Hour + 1]}

\* C7 as claimed: a create request that passed the not-found check and finds
\* the URL stored by a concurrent request when it inserts is answered 200 with
\* the code of the stored record.
C7_RaceAbsorbed ==
    [][\A w \in Workers :
         (/\ pc[w] = "insert"
          /\ pc'[w] = "idle"
          /\ RowsFor(request[w].original_url) # {}) =>
            /\ response'.reply.status = 200
            /\ \A r \in RowsFor(request[w].original_url) :
                 response'.reply.short_url_code = r.short_url]_vars

\* C8: no two rows of the table share an original_url or a short code.
C8_StoreUnique ==
    \A r1 \in short_links, r2 \in short_links :
        (r1.original_url = r2.original_url \/ r1.short_url = r2.short_url) => r1 = r2

\* the table holds two rows
C8_Witness == Cardinality(short_links) = 2

\* C9 as claimed: a create request whose generated code is the code of a
\* stored record of another URL is answered 409; the table and the limiter
\* are left as they are.
C9_CollisionIsConflict ==
    [][\A w \in Workers :
         (/\ pc[w] = "insert"
          /\ pc'[w] = "idle"
          /\ \E r \in RowsUnder(generate_short_code(request[w].original_url)) :
                r.original_url # request[w].original_url) =>
            /\ response'.reply.status = 409
            /\ short_links' = short_links
            /\ user_link_counts' = user_link_counts]_vars

\* this step: a read handler of process w answers for a row that is stale
AnswersStale(w) ==
    /\ pc[w] \in {"resolve", "redirect"}
    /\ pc'[w] = "idle"
    /\ ~Fresh(now, The(link[w]))

\* C10 as claimed: the response of resolve and redirect for a stale record is
\* the response for a code that no record has.
C10_StaleLikeAbsent ==
    [][\A w \in Workers : AnswersStale(w) => response'.reply = LinkNotFound]_vars

\* C10 as amended: for a stale record resolve and redirect answer with the
\* status of the response for an absent code (404) and with the same fields,
\* but with a different detail text; a code that no record has is answered
\* with the "not found" response.
C10_StaleSameStatus ==
    [][\A w \in Workers :
         /\ AnswersStale(w) =>
              /\ Answers(w)
              /\ response'.reply.status = LinkNotFound.status
              /\ DOMAIN response'.reply = DOMAIN LinkNotFound
              /\ response'.reply.detail # LinkNotFound.detail
         /\ \A op \in {"resolve", "redirect"}, c \in Codes :
              (ReadArrives(w, op, c) /\ RowsUnder(c) = {}) =>
                 (Answers(w) /\ response'.reply = LinkNotFound)]_vars

\* a read of a stale record was answered 404
C10_Witness ==
    /\ response.path = "expired"
    /\ response.reply.status = 404
    /\ \E r \in RowsUnder(response.request.short_url) : ~Fresh(now, r)

---------------------------------------------------------------------------
(* C11 - C18 *)

\* the URL begins with a scheme that the redirect accepts
HasScheme(u) ==
    \/ StartsWith(u, <<"h","t","t","p",":","/","/">>)
    \/ StartsWith(u, <<"h","t","t","p","s",":","/","/">>)

\* C11: scheme normalization on redirect.  When a redirect answers for a row
\* that is within its lifetime, the answer is a 307 whose target is the stored
\* URL itself when that URL starts with http:// or https://, and "http://"
\* followed by the stored URL otherwise; a resolve that answers for such a row
\* returns the stored URL unchanged.
C11_SchemeNormalization ==
    [][\A w \in Workers :
         (/\ pc[w] \in {"resolve", "redirect"}
          /\ pc'[w] = "idle"
          /\ Fresh(now, The(link[w]))) =>
            /\ Answers(w)
            /\ RowsUnder(request[w].short_url) # {}
            /\ \A r \in RowsUnder(request[w].short_url) :
                 IF pc[w] = "redirect"
                   THEN /\ response'.reply.status = 307
                        /\ response'.reply.location =
                              IF HasScheme(r.original_url)
                                THEN r.original_url
                                ELSE <<"h","t","t","p",":","/","/">> \o r.original_url
                   ELSE response'.reply =
                          [status |-> 200, original_url |-> r.original_url]]_vars

\* a redirect for a stored URL without scheme went to "http://" + URL
C11_Witness ==
    /\ response.path = "fresh"
    /\ response.request.op = "redirect"
    /\ \E r \in RowsUnder(response.request.short_url) :
         /\ ~HasScheme(r.original_url)
         /\ response.reply.location = <<"h","t","t","p",":","/","/">> \o r.original_url

\* a redirect for a stored https:// URL went to the URL itself
C11_HttpsReached ==
    /\ response.path = "fresh"
    /\ response.request.op = "redirect"
    /\ \E r \in RowsUnder(response.request.short_url) :
         /\ StartsWith(r.original_url, <<"h","t","t","p","s",":","/","/">>)
         /\ response.reply.location = r.original_url

\* the count that process w holds for the client once the window was looked
\* at: 0 for a client without entry or with a window that ran out
CountOnArrival(w, ip) ==
    IF \E e \in user_link_counts[w][ip] : now - e.timestamp <= Hour
      THEN The(user_link_counts[w][ip]).count
      ELSE 0

\* C12 as claimed: a create request of a client whose count is below
\* MAX_LINKS_PER_USER that is answered with success has added one to the
\* client's count, also when it is answered from the existing record.
C12_EveryAdmittedCounts ==
    [][\A w \in Workers, ip \in Senders :
         /\ \A u \in URLs :
              (/\ CreateArrives(w, ip, u)
               /\ CountOnArrival(w, ip) < MAX_LINKS_PER_USER
               /\ Answers(w)
               /\ response'.reply.status = 200) =>
                 The(user_link_counts'[w][ip]).count = CountOnArrival(w, ip) + 1
         /\ (/\ pc[w] \in {"insert", "renew"}
             /\ request[w].ip = ip
             /\ pc'[w] = "idle"
             /\ The(user_link_counts[w][ip]).count < MAX_LINKS_PER_USER
             /\ response'.reply.status = 200) =>
               The(user_link_counts'[w][ip]).count =
                  The(user_link_counts[w][ip]).count + 1]_vars

\* C12 as amended: only a creation consumes quota.  The arrival of a create
\* request leaves the client's count as the window check found it, whatever
\* the answer (from the existing record, 429, 400); the renewal of a stale
\* record leaves every count as it is; the insert adds one to the client's
\* count exactly when it stores a new record.
C12_OnlyInsertCounts ==
    [][\A w \in Workers, ip \in Senders :
         /\ \A u \in URLs :
              CreateArrives(w, ip, u) =>
                 The(user_link_counts'[w][ip]).count = CountOnArrival(w, ip)
         /\ (pc[w] = "renew" /\ pc'[w] = "idle") =>
               user_link_counts' = user_link_counts
         /\ (pc[w] = "insert" /\ request[w].ip = ip /\ pc'[w] = "idle") =>
               The(user_link_counts'[w][ip]).count =
                  The(user_link_counts[w][ip]).count
                    + (IF short_links' # short_links THEN 1 ELSE 0)]_vars

\* a client created a link and then asked for the same URL again in the same
\* process: the second request was answered from the record and the count is
\* still 1
C12_Witness ==
    /\ response.path = "existing"
    /\ response.reply.status = 200
    /\ nreq = 2
    /\ Cardinality(short_links) = 1
    /\ user_link_counts[response.w][response.request.ip] =
          {[count |-> 1, timestamp |-> 0]}

\* the limiter entries of all processes but the one of client ip in process w
\* are left as they are by this step
OtherEntriesUnchanged(w, ip) ==
    \A v \in Workers, i \in IPs :
        <<v, i>> # <<w, ip>> => user_link_counts'[v][i] = user_link_counts[v][i]

\* C13: frame of a creation.  A create request that inserts a new record adds
\* exactly one to the count that the window check left for the requesting
\* client, keeps that client's window start, and - at its arrival as at its
\* insert - leaves the count and the window start of every other client (and
\* the entries held by the other processes) unchanged.
C13_CreationFrame ==
    [][\A w \in Workers :
         /\ \A ip \in Senders, u \in URLs :
              CreateArrives(w, ip, u) => OtherEntriesUnchanged(w, ip)
         /\ (pc[w] = "insert" /\ pc'[w] = "idle" /\ short_links' # short_links) =>
               LET ip == request[w].ip
               IN  /\ response'.reply.status = 200
                   /\ Cardinality(user_link_counts[w][ip]) = 1
                   /\ \A e \in user_link_counts[w][ip] :
                        user_link_counts'[w][ip] =
                           {[count |-> e.count + 1, timestamp |-> e.timestamp]}
                   /\ OtherEntriesUnchanged(w, ip)]_vars

\* a creation was counted for its client in a process that holds an entry of
\* another client
C13_Witness ==
    /\ response.path = "inserted"
    /\ response.reply.status = 200
    /\ \E e \in user_link_counts[response.w][response.request.ip] : e.count >= 1
    /\ \E i \in IPs \ {response.request.ip} : user_link_counts[response.w][i] # {}

\* this step: process w commits the insert of a new record for client ip
Inserts(w, ip) ==
    /\ pc[w] = "insert"
    /\ request[w].ip = ip
    /\ pc'[w] = "idle"
    /\ short_links' # short_links

\* C14 as claimed: whatever the interleaving of the create requests of one
\* client, every insert adds one to the count kept for the client, no count
\* exceeds MAX_LINKS_PER_USER, and once MAX_LINKS_PER_USER records were
\* inserted for the client in a window (some process holds that count in an
\* open window) no further record is inserted for the client in that window.
C14_QuotaPerClient ==
    [][\A ip \in Senders :
         /\ \A w \in Workers :
              /\ Inserts(w, ip) =>
                    The(user_link_counts'[w][ip]).count =
                       The(user_link_counts[w][ip]).count + 1
              /\ \A e \in user_link_counts'[w][ip] : e.count <= MAX_LINKS_PER_USER
         /\ (\E v \in Workers : QuotaUsedUp(v, ip)) =>
               ~ \E w \in Workers : Inserts(w, ip)]_vars

\* C14 as amended: the limiter is atomic inside one server process and bounds
\* what that process inserts.  The entry that process w keeps for a client
\* changes only when w itself accepts a create request of the client or
\* commits an insert for it, whatever the other processes do in between;
\* every insert of w adds one to w's count, none is lost; w's count never
\* exceeds MAX_LINKS_PER_USER; and w inserts no record for a client for whom
\* it holds MAX_LINKS_PER_USER in an open window.
C14_QuotaPerProcess ==
    [][\A ip \in Senders, w \in Workers :
         /\ user_link_counts'[w][ip] # user_link_counts[w][ip] =>
               \/ \E u \in URLs : CreateArrives(w, ip, u)
               \/ Inserts(w, ip)
         /\ Inserts(w, ip) =>
               The(user_link_counts'[w][ip]).count =
                  The(user_link_counts[w][ip]).count + 1
         /\ \A e \in user_link_counts'[w][ip] : e.count <= MAX_LINKS_PER_USER
         /\ QuotaUsedUp(w, ip) => ~Inserts(w, ip)]_vars

\* two create requests of one client were in progress in two processes at the
\* same time; the first insert brought its process's count to the maximum
\* while the other request was still waiting for its insert
C14_Witness ==
    /\ response.path = "inserted"
    /\ \E e \in user_link_counts[response.w][response.request.ip] :
         e.count = MAX_LINKS_PER_USER
    /\ \E v \in Workers \ {response.w} :
         /\ pc[v] = "insert"
         /\ request[v].ip = response.request.ip

\* C15: invalid input on create.  A create request for a URL that has no
\* record and that the validator rejects is answered at once, inserts nothing
\* and leaves the client's count as the window check found it; the answer is
\* InvalidFormat (400) when that count is below MAX_LINKS_PER_USER and
\* RateLimited (429) when it is not: the quota is looked at before the URL.
C15_InvalidInput ==
    [][\A w \in Workers, ip \in Senders, u \in URLs :
         (CreateArrives(w, ip, u) /\ RowsFor(u) = {} /\ ~check_link(u)) =>
            /\ Answers(w)
            /\ short_links' = short_links
            /\ The(user_link_counts'[w][ip]).count = CountOnArrival(w, ip)
            /\ IF CountOnArrival(w, ip) < MAX_LINKS_PER_USER
                 THEN /\ response'.reply.status = 400
                      /\ response'.reply.detail = "Invalid link format"
                 ELSE /\ response'.reply.status = 429
                      /\ response'.reply = RateLimited]_vars

\* a URL that the validator rejects was answered 400 and is not stored
C15_Witness ==
    /\ response.path = "invalid"
    /\ response.reply.status = 400
    /\ ~check_link(response.request.original_url)
    /\ RowsFor(response.request.original_url) = {}
    /\ \E e \in user_link_counts[response.w][response.request.ip] :
         e.count < MAX_LINKS_PER_USER

\* a client at quota sent a URL that the validator rejects and was answered 429
C15_QuotaFirstReached ==
    /\ response.path = "limited"
    /\ response.reply.status = 429
    /\ ~check_link(response.request.original_url)
    /\ QuotaUsedUp(response.w, response.request.ip)

\* this step: process w runs the renewal for the URL, which it found stale
\* when it looked the record up
RenewsStale(w, original_url) ==
    /\ pc[w] = "renew"
    /\ pc'[w] = "idle"
    /\ request[w].op = "create"
    /\ request[w].original_url = original_url
    /\ \A x \in existing_link[w] :
         /\ x.original_url = original_url
         /\ current_datetime[w] - x.created_at > x.ttl

\* C16: records are never deleted and keep their identity.  In every step
\* each stored record stays stored with the same id, original_url, short code
\* and ttl; its created_at changes only in the renewal step of a create
\* request for its URL that found it stale; a create request for a URL whose
\* record is fresh is answered at once and leaves the table as it is.
C16_RecordsStable ==
    [][/\ \A r \in short_links :
            \E q \in short_links' :
                /\ q.id = r.id
                /\ q.original_url = r.original_url
                /\ q.short_url = r.short_url
                /\ q.ttl = r.ttl
                /\ q.created_at # r.created_at =>
                      \E w \in Workers : RenewsStale(w, r.original_url)
       /\ Cardinality(short_links') >= Cardinality(short_links)
       /\ \A w \in Workers, ip \in Senders, u \in URLs :
            (CreateArrives(w, ip, u) /\ \E r \in RowsFor(u) : Fresh(now, r)) =>
               /\ short_links' = short_links
               /\ pc'[w] = "idle"]_vars

\* a renewal gave a record a new created_at; the record is the first one
\* stored, with its URL, code and ttl
C16_Witness ==
    /\ response.path = "renewed"
    /\ \E r \in short_links :
         /\ r.id = 1
         /\ r.original_url = response.request.original_url
         /\ r.short_url = generate_short_code(r.original_url)
         /\ r.ttl = DefaultTTL
         /\ r.created_at = now
         /\ now > DefaultTTL

\* this step is a step of a read handler of process w
ReadStep(w) ==
    \/ \E op \in {"resolve", "redirect"}, c \in Codes : ReadArrives(w, op, c)
    \/ pc[w] \in {"resolve", "redirect"} /\ pc'[w] = "idle"

\* C17: the read path has no effects.  Every step of resolve and of redirect,
\* the lookup as the answer, with success or with 404, leaves the table (all
\* fields of all records) and the limiter entries of all clients in all
\* processes as they are; a record that is stale before the step is stale
\* after it.
C17_ReadsHaveNoEffect ==
    [][\A w \in Workers :
         ReadStep(w) =>
            /\ short_links' = short_links
            /\ user_link_counts' = user_link_counts
            /\ \A r \in short_links :
                 ~Fresh(now, r) =>
                    \A q \in short_links' : q.id = r.id => ~Fresh(now', q)]_vars

\* a redirect went to the prefixed form of a URL that is still stored without
\* scheme, and the limiter entry of the client that created it is as the
\* creation left it
C17_Witness ==
    /\ response.path = "fresh"
    /\ response.request.op = "redirect"
    /\ response.reply.status = 307
    /\ \E r \in short_links :
         /\ r.original_url = U_bare
         /\ r.short_url = response.request.short_url
         /\ response.reply.location # r.original_url
    /\ \E w \in Workers :
         user_link_counts[w]["ip1"] = {[count |-> 1, timestamp |-> 0]}

\* C18: stored records are well formed.  In every reachable state every
\* record of the table has an original_url that check_link accepts and the
\* short code that generate_short_code returns for that original_url.
C18_WellFormedRecords ==
    \A r \in short_links :
        /\ check_link(r.original_url)
        /\ r.short_url = generate_short_code(r.original_url)

\* a create request stored a second record, both records being well formed
C18_Witness ==
    /\ response.path = "inserted"
    /\ Cardinality(short_links) = 2
    /\ \E r \in short_links :
         /\ r.original_url = response.request.original_url
         /\ check_link(r.original_url)
         /\ r.short_url = generate_short_code(r.original_url)
         /\ r.short_url = response.reply.short_url_code


===========================================================================
